---- MODULE Spec2Model ----
(***************************************************************************)
(* Model of the remote command execution engine of celestia-node:          *)
(* src/src/services/ssh/SshService.ts (connection pool, per-session FIFO   *)
(* command queue, command runner with timeout escalation, idle reaper).    *)
(*                                                                         *)
(* One action of the model is one macrotask of the JavaScript event loop   *)
(* (a public call, a timer callback, a child-process event) together with  *)
(* every promise continuation it releases.  Time is in milliseconds and is  *)
(* measured from the current instant: when time passes, every stored       *)
(* timestamp and timer deadline is shifted instead of the clock (the code  *)
(* only ever uses differences of Date.now() values and timer delays).      *)
(* Timers fire exactly at their deadline.                                  *)
(***************************************************************************)
EXTENDS Integers, Sequences, FiniteSets, TLC

\* ------------------------------------------------------------------ bounds
MaxReqs == 3
MaxLiveReqs == 2
MaxLongReqs == 2
MaxCalls == 1
MaxRetries == 3
MaxOps == 1
MaxFaults == 2
MaxTokens == 5
MaxApply == 2
MaxStream == 4

\* ------------------------------------------------------- program constants
maxIdleTime == 300000
CleanupPeriod == 60000
DefaultTimeout == 30000
InitTimeout == 300000
InterCommandDelay == 100
KillGrace == 5000
SudoBackoff == 2000
PlainBackoff == 1000

\* ------------------------------------------------------------ command texts
\* A command text is the sequence of its characters.
T_sudo == <<"s", "u", "d", "o">>
T_sp == <<" ">>
T_n == <<"-", "n">>
T_ls == <<"l", "s">>

\* Texts the lifecycle code compares with or prints.  A stretch of
\* characters that contains none of the compared texts is one element.
T_nl == <<"\n">>
T_active == <<"active">>
T_inactive == <<"in">> \o T_active
T_activating == <<"activating">>
T_unknown == <<"unknown">>
T_pid == <<"4242">>
T_noProcesses == <<"NO_PROCESSES">>
T_dump == <<"celestia-light.service - Celestia Light Node">>

\* The commands of the lifecycle operations.
StopCmd == T_sudo \o T_sp \o <<"systemctl stop celestia-light">>
StartCmd == T_sudo \o T_sp \o <<"systemctl start celestia-light.service">>
IsActiveCmd == <<"systemctl is-active celestia-light.service 2>/dev/null || echo \"inactive\"">>
PgrepOrNoneCmd == <<"pgrep -f \"celestia.*light\" || echo \"NO_PROCESSES\"">>
PgrepCmd == <<"pgrep -f \"celestia.*light\"">>
PsCmd == <<"ps aux | grep celestia | grep -v grep || true">>
StatusLogCmd == <<"systemctl status celestia-light.service --no-pager --lines=5">>
StatusDumpCmd ==
  T_sudo \o T_sp \o <<"systemctl status celestia-light.service --no-pager --lines=10 2>/dev/null || echo \"Service not found\"">>
StatusDiagCmd == T_sudo \o T_sp \o <<"systemctl status celestia-light.service --no-pager --lines=20">>
JournalCmd == T_sudo \o T_sp \o <<"journalctl -u celestia-light.service --no-pager --lines=10">>

\* ------------------------------------------------------------ input domains
Users == {"root"}
Hosts == {"h1", "h2"}
Connections == [sshKey : {"~/.ssh/id_rsa.pem"}, remoteUser : Users, remoteHost : Hosts]
Cmds == {T_ls}
Timeouts == {DefaultTimeout}
LongTimeouts == {InitTimeout}
ExitCodes == {0, 1}

NULL == 0
NoTimer == -1

\* const key = `${connection.remoteUser}@${connection.remoteHost}`
PoolKey(c) == c.remoteUser \o "@" \o c.remoteHost
Keys == {PoolKey(c) : c \in Connections}

\* Date.now(), with the time origin at the current instant.
now == 0

VARIABLES
  connectionPool,       \* Map<string, PooledConnection>: key -> object id, NULL when absent
  sessions,             \* the live PooledConnection objects, by object id
  poolCleanupInterval,  \* handle of the reaper interval, or NULL
  intervals,            \* live setInterval timers: handle -> next firing time
  requests,             \* the command requests not yet settled (queued or handed to the runner)
  futures,              \* the promise returned for every request ever submitted, in submission order
  procs,                \* per request: the runner's closure and its child process
  drain,                \* suspended processCommandQueue frames, by session object id
  reaped,               \* number of sessions removed by reaper ticks
  calls,                \* every call of executeRemoteCommandWithOptions, in call order
  probe,                \* a command text under the sudo rewrite: input, applications, results
  ops,                  \* every lifecycle operation invoked (start, stop, status, ...), in call order
  remote,               \* the remote host: state of the service and of the node process
  environment           \* process.env: the configured remote user and host

vars == <<connectionPool, sessions, poolCleanupInterval, intervals,
          requests, futures, procs, drain, reaped, calls, probe,
          ops, remote, environment>>

\* The mutable program state as one value, so that the source's functions
\* can be written as functions from state to state and composed.
St == [pool |-> connectionPool, sess |-> sessions, pci |-> poolCleanupInterval,
       ivl |-> intervals, reqs |-> requests, futs |-> futures, procs |-> procs,
       drain |-> drain, reaped |-> reaped, calls |-> calls, ops |-> ops,
       remote |-> remote, env |-> environment]

\* The state st, computed once, becomes the program's next state.
Commit(st) ==
  \E new \in {st} :
    /\ connectionPool' = new.pool
    /\ sessions' = new.sess
    /\ poolCleanupInterval' = new.pci
    /\ intervals' = new.ivl
    /\ requests' = new.reqs
    /\ futures' = new.futs
    /\ procs' = new.procs
    /\ drain' = new.drain
    /\ reaped' = new.reaped
    /\ calls' = new.calls
    /\ ops' = new.ops
    /\ remote' = new.remote
    /\ UNCHANGED <<probe, environment>>

Restrict(f, S) == [x \in S |-> f[x]]
PoolSize(st) == Cardinality({k \in Keys : st.pool[k] # NULL})
InPool(st, s) == \E k \in Keys : st.pool[k] = s

\* A runner closure is live while its child process is alive or one of its
\* timers is pending.
ProcLive(p) == p.state \in {"running", "termed"} \/ p.timer # NoTimer \/ p.killAt # NoTimer

\* The calls made by a lifecycle operation that has consumed their outcome:
\* nothing refers to their errors any more.
Consumed(st) ==
  {c \in DOMAIN st.calls :
     /\ st.calls[c].owner # NULL
     /\ st.calls[c].pc \in {"returned", "threw"}
     /\ st.ops[st.calls[c].owner].call # c}
ConsumedReqs(st) == UNION {{st.calls[c].reqs[i] : i \in DOMAIN st.calls[c].reqs} : c \in Consumed(st)}

\* An object no longer referenced by the pool map, by a drain frame, by a
\* pending timer or by a live child process is unreachable and is collected.
\* Of a consumed call and of its requests only the command, the outcome and
\* the output remain on record.
Collect(st) ==
  [st EXCEPT !.sess = Restrict(@, {s \in DOMAIN @ : InPool(st, s) \/ s \in DOMAIN st.drain}),
             !.procs = Restrict(@, {r \in DOMAIN @ : ProcLive(@[r])}),
             !.calls = [c \in DOMAIN @ |->
                          IF c \in Consumed(st) THEN [@[c] EXCEPT !.result.error = "none"] ELSE @[c]],
             !.futs = [r \in DOMAIN @ |->
                         IF r \in ConsumedReqs(st)
                           THEN [@[r] EXCEPT !.error = "none", !.signals = <<>>, !.busyAtSubmit = FALSE,
                                            !.message = <<>>]
                           ELSE @[r]]]

\* ---------------------------------------------------------------- the reaper
stopPoolCleanup(st) ==
  IF st.pci # NULL
    THEN [st EXCEPT !.ivl = Restrict(@, DOMAIN @ \ {st.pci}), !.pci = NULL]
    ELSE st

startPoolCleanup(st, h) ==
  [st EXCEPT !.ivl = (h :> (now + CleanupPeriod)) @@ @, !.pci = h]

ShouldArmCleanup(st) == PoolSize(st) = 1 /\ st.pci = NULL

\* if (!pooled.isActive && now - pooled.lastUsed > maxIdleTime), preceded by
\* two faulty variants (busy flag not tested; threshold not strict).
IsIdleExpired_ignoreBusy(p) == now - p.lastUsed > maxIdleTime
IsIdleExpired_atThreshold(p) == ~p.isActive /\ now - p.lastUsed >= maxIdleTime
IsIdleExpired(p) == ~p.isActive /\ now - p.lastUsed > maxIdleTime

\* if (this.connectionPool.size === 0), preceded by a faulty variant (the
\* reaper never stops itself).
ShouldStopCleanup_never(st) == FALSE
ShouldStopCleanup(st) == PoolSize(st) = 0

\* ------------------------------------------------------------------ the pool
\* id is the identity of the object created when the key is absent (the
\* number of the request being submitted); it also names the interval timer.
ArmCleanupIfFirst(created, id) ==
  IF ShouldArmCleanup(created) THEN startPoolCleanup(created, id) ELSE created
TouchPooled(st1, key) == [st1 EXCEPT !.sess[st1.pool[key]].lastUsed = now]
getPooledConnection(st, c, id) ==
  TouchPooled(IF st.pool[PoolKey(c)] = NULL
                THEN ArmCleanupIfFirst(
                       [st EXCEPT !.pool[PoolKey(c)] = id,
                                  !.sess = (id :> [connection |-> c, lastUsed |-> now,
                                                   isActive |-> FALSE, commandQueue |-> <<>>]) @@ @],
                       id)
                ELSE st,
              PoolKey(c))

\* ---------------------------------------------------------------- the runner
\* executeRemoteCommand up to the end of its promise executor: the child
\* process is spawned and the timeout timer is armed.
executeRemoteCommand(st, r) ==
  [st EXCEPT !.procs = (r :> [state |-> "running", finished |-> FALSE, settled |-> FALSE,
                              timer |-> now + st.reqs[r].timeout, killAt |-> NoTimer,
                              age |-> 0]) @@ @,
             !.futs[r].status = "inflight",
             !.futs[r].spawned = @ + 1]

\* clearTimeout(timer) in the close and error handlers, preceded by a faulty
\* variant (the timer is left armed).
clearTimeout_forgotten(t) == t
clearTimeout(t) == NoTimer

\* if (!finished) in the timeout callback, preceded by a faulty variant
\* (condition inverted).
TimeoutPending_inverted(p) == p.finished
TimeoutPending(p) == ~p.finished

\* setTimeout(..., 5000) in the timeout callback: the deadline of the force
\* kill, preceded by a faulty variant (no grace period).
KillDeadline_immediate(t) == t
KillDeadline(t) == t + KillGrace

\* ssh.kill(sig): the signal reaches the child process if it has not exited;
\* the delivery is recorded with the time elapsed since the spawn.  Preceded
\* by a faulty variant (the signal is sent to the process id also after the
\* exit).
Kill_exited(st, r, sig) ==
  [st EXCEPT !.futs[r].signals = Append(@, [sig |-> sig, at |-> st.procs[r].age])]
Kill(st, r, sig) ==
  IF st.procs[r].state \in {"running", "termed"}
    THEN [st EXCEPT !.futs[r].signals = Append(@, [sig |-> sig, at |-> st.procs[r].age])]
    ELSE st

\* commandQueue.push(...) and commandQueue.shift(), with faulty variants
\* (unshift instead of push; the head read but not removed).
Enqueue_front(q, r) == <<r>> \o q
Enqueue(q, r) == Append(q, r)
QueueHead(q) == Head(q)
QueueRest_peek(q) == q
QueueRest(q) == Tail(q)

\* pooled.isActive = true, preceded by a faulty variant (flag not set).
MarkActive_forgotten(p) == p
MarkActive(p) == [p EXCEPT !.isActive = TRUE]

\* if (!pooled.isActive) in executeRemoteCommandPooled, preceded by a faulty
\* variant (one busy flag for the whole pool).
ShouldStartDrain_global(st, s) == \A x \in DOMAIN st.sess : ~st.sess[x].isActive
ShouldStartDrain(st, s) == ~st.sess[s].isActive

\* The while loop of processCommandQueue from its head up to the next await,
\* or to the end of the function when the queue is empty.
DrainLoop(st, s) ==
  LET q == st.sess[s].commandQueue IN
  IF Len(q) > 0
    THEN LET r == QueueHead(q)
             st1 == [st EXCEPT !.sess[s].commandQueue = QueueRest(q),
                               !.drain = (s :> [pc |-> "run", cur |-> r, wake |-> NoTimer]) @@ @]
         IN executeRemoteCommand(st1, r)
    ELSE Collect([st EXCEPT !.sess[s].isActive = FALSE,
                            !.sess[s].lastUsed = now,
                            !.drain = Restrict(@, DOMAIN @ \ {s})])

processCommandQueue(st, s) ==
  IF st.sess[s].isActive \/ Len(st.sess[s].commandQueue) = 0
    THEN st
    ELSE DrainLoop([st EXCEPT !.sess[s] = MarkActive(@)], s)

\* pooled.commandQueue.push({cmd, timeout, resolve, reject}) on session s
PushCommand(st1, s, r, key, cmd, timeoutMs) ==
  [st1 EXCEPT !.sess[s].commandQueue = Enqueue(@, r),
              !.reqs = (r :> [cmd |-> cmd, timeout |-> timeoutMs, session |-> s]) @@ @,
              !.futs = Append(@, [key |-> key, cmd |-> cmd, timeout |-> timeoutMs,
                                  status |-> "queued", error |-> "none", spawned |-> 0,
                                  busyAtSubmit |-> st1.sess[s].isActive, signals |-> <<>>,
                                  stdout |-> <<>>, stderr |-> <<>>, message |-> <<>>])]
\* if (!pooled.isActive) this.processCommandQueue(pooled)
StartDrainIfIdle(st2, s) == IF ShouldStartDrain(st2, s) THEN processCommandQueue(st2, s) ELSE st2
\* The promise executor, given the state after getPooledConnection.
QueueCommand(st1, r, key, cmd, timeoutMs) ==
  StartDrainIfIdle(PushCommand(st1, st1.pool[key], r, key, cmd, timeoutMs), st1.pool[key])
executeRemoteCommandPooled(st, c, cmd, timeoutMs) ==
  QueueCommand(getPooledConnection(st, c, Len(st.futs) + 1), Len(st.futs) + 1,
               PoolKey(c), cmd, timeoutMs)

\* ----------------------------------------------------------- text functions

\* String.prototype.startsWith, includes and replace (with a string
\* pattern: the first occurrence only).
startsWith(s, p) == Len(s) >= Len(p) /\ SubSeq(s, 1, Len(p)) = p
Matches(s, p) == {i \in 1..(Len(s) - Len(p) + 1) : SubSeq(s, i, i + Len(p) - 1) = p}
includes(s, p) == Matches(s, p) # {}
replace(s, p, q) ==
  IF Matches(s, p) = {} THEN s
  ELSE LET i == CHOOSE x \in Matches(s, p) : \A y \in Matches(s, p) : x <= y
       IN SubSeq(s, 1, i - 1) \o q \o SubSeq(s, i + Len(p), Len(s))

\* String.prototype.trim and split (one-character separator).
IsSpace(ch) == ch \in {" ", "\n"}
RECURSIVE trimStart(_)
trimStart(s) == IF s # <<>> /\ IsSpace(Head(s)) THEN trimStart(Tail(s)) ELSE s
RECURSIVE trimEnd(_)
trimEnd(s) == IF s # <<>> /\ IsSpace(s[Len(s)]) THEN trimEnd(SubSeq(s, 1, Len(s) - 1)) ELSE s
trim(s) == trimEnd(trimStart(s))
RECURSIVE split(_, _)
split(s, sep) ==
  IF ~includes(s, sep) THEN <<s>>
  ELSE LET i == CHOOSE x \in Matches(s, sep) : \A y \in Matches(s, sep) : x <= y
       IN <<SubSeq(s, 1, i - 1)>> \o split(SubSeq(s, i + 1, Len(s)), sep)

\* Logger.normalizeMessage
normalizeMessage(s) == trimEnd(s)

\* ssh.stdout.on('data') and ssh.stderr.on('data'): the chunk is normalized
\* and appended to what has been accumulated.
onData(acc, data) == acc \o normalizeMessage(data)

\* ---------------------------------------------------- the retry/sudo policy
\* if (command.startsWith('sudo ') && !command.includes('sudo -n')), preceded
\* by a faulty variant (the -n test dropped).
NeedsRewrite_always(command) == startsWith(command, T_sudo \o T_sp)
NeedsRewrite(command) ==
  startsWith(command, T_sudo \o T_sp) /\ ~includes(command, T_sudo \o T_sp \o T_n)

\* modifiedCommand of executeSudoCommand
modifiedCommand(command) ==
  IF NeedsRewrite(command)
    THEN replace(command, T_sudo \o T_sp, T_sudo \o T_sp \o T_n \o T_sp)
    ELSE command

\* A field of the options object, or its default when the field is absent.
Option(options, f, d) == IF f \in DOMAIN options THEN options[f] ELSE d

\* if (requiresSudo || cmd.startsWith('sudo'))
UsesSudoPath(cmd, options) ==
  Option(options, "requiresSudo", includes(cmd, T_sudo)) \/ startsWith(cmd, T_sudo)

\* 2000 * attempt on the sudo path, 1000 * attempt on the plain path,
\* preceded by a faulty variant (the wait does not grow with the attempt).
Backoff_constant(call) == IF call.path = "sudo" THEN SudoBackoff ELSE PlainBackoff
Backoff(call) == (IF call.path = "sudo" THEN SudoBackoff ELSE PlainBackoff) * call.attempt

\* if (attempt === retries) throw error, preceded by a faulty variant (the
\* first failure is final).
IsLastAttempt_first(call) == call.attempt = 1
IsLastAttempt(call) == call.attempt = call.retries

\* return / throw of the policy function: the call's promise is settled.
Return(st, c, r) ==
  [st EXCEPT !.calls[c].pc = "returned", !.calls[c].result = [from |-> r, error |-> "none"]]
Throw(st, c, r, err) ==
  [st EXCEPT !.calls[c].pc = "threw", !.calls[c].result = [from |-> r, error |-> err]]

\* The for loop of the policy from its condition up to the await of the
\* attempt, or to the throw after the loop.
AwaitAttempt(st1, c) ==
  [st1 EXCEPT !.calls[c].pc = "await",
              !.calls[c].req = Len(st1.futs),
              !.calls[c].reqs = Append(@, Len(st1.futs))]
\* attempt <= retries, the condition of the for loop, preceded by a faulty
\* variant (the body runs once before the condition is tested).
LoopCondition_doWhile(call) == call.attempt = 1 \/ call.attempt <= call.retries
LoopCondition(call) == call.attempt <= call.retries
RetryLoop(st, c) ==
  LET call == st.calls[c] IN
  IF LoopCondition(call)
    THEN AwaitAttempt(
           executeRemoteCommandPooled(st, call.connection, call.command, call.timeout), c)
    ELSE Throw(st, c, NULL, "unexpected end")

\* The policy resumes after the await of an attempt: return of the result,
\* or the catch block.  AttemptOk: the awaited promise was fulfilled (return
\* await ...), preceded by a faulty variant (the result is dropped and the
\* loop goes on).
AttemptOk_ignored(st, call) == FALSE
AttemptOk(st, call) == st.futs[call.req].status = "resolved"
AfterAttempt(st, c) ==
  LET call == st.calls[c] IN
  IF AttemptOk(st, call) THEN Return(st, c, call.req)
  ELSE IF IsLastAttempt(call) THEN Throw(st, c, call.req, st.futs[call.req].error)
  ELSE [st EXCEPT !.calls[c].pc = "backoff", !.calls[c].wake = now + Backoff(call),
                  !.calls[c].waited = 0]

\* executeRemoteCommandWithOptions, with the sudo path (executeSudoCommand)
\* and the plain path as one loop that differs in the submitted text and in
\* the backoff base.
executeRemoteCommandWithOptions(st, connection, cmd, options) ==
  LET sudo == UsesSudoPath(cmd, options)
      call == [connection |-> connection, cmd |-> cmd,
               command |-> IF sudo THEN modifiedCommand(cmd) ELSE cmd,
               timeout |-> Option(options, "timeout", DefaultTimeout),
               retries |-> Option(options, "retries", 1),
               path |-> IF sudo THEN "sudo" ELSE "plain",
               attempt |-> 1, pc |-> "start", req |-> NULL, reqs |-> <<>>, owner |-> NULL,
               wake |-> NoTimer, waited |-> 0, waits |-> <<>>,
               result |-> [from |-> NULL, error |-> "none"]]
  IN RetryLoop([st EXCEPT !.calls = Append(@, call)], Len(st.calls) + 1)

\* The continuation of the call awaiting the future of request r, if any.
Awaiters(st, r) == {c \in DOMAIN st.calls : st.calls[c].pc = "await" /\ st.calls[c].req = r}
Resume(st, r) ==
  IF Awaiters(st, r) = {} THEN st ELSE AfterAttempt(st, CHOOSE c \in Awaiters(st, r) : TRUE)

\* The runner's promise of request r is resolved (ok) or rejected (err).  A
\* settled promise ignores further calls.  Otherwise the drain loop awaiting
\* it resumes and settles the request's future: resolve + 100 ms delay, or
\* reject + next loop iteration.  Then the caller awaiting the future resumes.
Settle(st, r, ok, err) ==
  IF st.procs[r].settled THEN st
  ELSE LET s == st.reqs[r].session
           st1 == [st EXCEPT !.procs[r].settled = TRUE,
                             !.reqs = Restrict(@, DOMAIN @ \ {r})]
           st2 == IF ok
                    THEN [st1 EXCEPT !.futs[r].status = "resolved",
                                     !.drain[s] = [pc |-> "delay", cur |-> NULL,
                                                   wake |-> now + InterCommandDelay]]
                    ELSE DrainLoop([st1 EXCEPT !.futs[r].status = "rejected",
                                               !.futs[r].error = err], s)
       IN Resume(st2, r)

\* cleanupConnectionPool, preceded by a faulty variant (reaper left armed).
cleanupConnectionPool_keepReaper(st) ==
  Collect([st EXCEPT !.pool = [k \in Keys |-> NULL]])

cleanupConnectionPool(st) ==
  Collect(stopPoolCleanup([st EXCEPT !.pool = [k \in Keys |-> NULL]]))

\* -------------------------------------------------------------------- Init
\* ----------------------------------------------------------- the remote host
\* What a command that exits with the given code prints on its standard error.
Stderr(cmd, code) ==
  CASE code = 0 -> <<>>
    [] code = 255 -> <<"ssh: connect to host h1 port 22: Connection refused">> \o T_nl
    [] OTHER -> <<"command failed">> \o T_nl

\* What the remote host prints on the standard output of a command.
Stdout(cmd, rem) ==
  CASE cmd = IsActiveCmd ->
         CASE rem.service = "active" -> T_active \o T_nl
           [] rem.service = "activating" -> T_activating \o T_nl \o T_inactive \o T_nl
           [] OTHER -> T_inactive \o T_nl \o T_inactive \o T_nl
    [] cmd = PgrepOrNoneCmd -> IF rem.process THEN T_pid \o T_nl ELSE T_noProcesses \o T_nl
    [] cmd = PgrepCmd -> IF rem.process THEN T_pid \o T_nl ELSE <<>>
    [] cmd \in {StatusLogCmd, modifiedCommand(StatusDumpCmd), modifiedCommand(StatusDiagCmd),
                modifiedCommand(JournalCmd), PsCmd} -> T_dump \o T_nl
    [] OTHER -> <<>>

\* The states the remote host can be in after a command has exited with
\* the given code.  A successful stop makes the service inactive, while the
\* node process may still be shutting down; a successful start makes it
\* active, at once or after the start command has returned.
Effects(cmd, code, rem) ==
  IF code # 0 THEN {rem}
  ELSE CASE cmd = modifiedCommand(StopCmd) ->
              {[service |-> "inactive", process |-> p] : p \in {rem.process, FALSE}}
         [] cmd = modifiedCommand(StartCmd) ->
              {[service |-> s, process |-> TRUE] : s \in {"active", "activating"}}
         [] OTHER -> {rem}

\* ------------------------------------------------- the lifecycle operations
\* SshService.createConnection: null when the user or the host is not set.
NoConnection(env) == env.remoteUser = "" \/ env.remoteHost = ""
createConnection(env) ==
  [sshKey |-> "~/.ssh/id_rsa.pem", remoteUser |-> env.remoteUser, remoteHost |-> env.remoteHost]

\* An operation in its initial state.  pc is the await the operation is
\* suspended at; elapsed is Date.now() - startTime of the quiescence poll.
NewOp(kind) ==
  [kind |-> kind, pc |-> "begin", call |-> NULL, wake |-> NoTimer, elapsed |-> 0,
   raised |-> FALSE, value |-> FALSE, serviceStatus |-> <<>>, processIds |-> <<>>,
   serviceDetails |-> <<>>, processDetails |-> <<>>, issued |-> <<>>]

\* await runRemote(cmd, options)
AwaitCall(st1, o, pc) ==
  [st1 EXCEPT !.calls[Len(st1.calls)].owner = o,
              !.ops[o].pc = pc,
              !.ops[o].call = Len(st1.calls),
              !.ops[o].issued = Append(@, Len(st1.calls))]
runRemote(st, o, pc, cmd, options) ==
  AwaitCall(executeRemoteCommandWithOptions(st, createConnection(st.env), cmd, options), o, pc)

\* await new Promise(resolve => setTimeout(resolve, ms))
Sleep(st, o, pc, ms) ==
  [st EXCEPT !.ops[o].pc = pc, !.ops[o].call = NULL, !.ops[o].wake = now + ms]

\* The operation returns v to its caller, or raises.
Finish(st, o, v) ==
  [st EXCEPT !.ops[o].pc = "done", !.ops[o].call = NULL, !.ops[o].value = v, !.ops[o].elapsed = 0]
Raise(st, o) ==
  [st EXCEPT !.ops[o].pc = "done", !.ops[o].call = NULL, !.ops[o].raised = TRUE, !.ops[o].elapsed = 0]

\* The outcome of the awaited command: fulfilled or rejected, and its output.
Ok(st, o) == st.calls[st.ops[o].call].pc = "returned"
Out(st, o) == st.futs[st.calls[st.ops[o].call].result.from].stdout

\* serviceStatus.stdout.trim() === 'active', preceded by a faulty variant
\* (substring test).
IsActiveOutput_includes(stdout) == includes(stdout, T_active)
IsActiveOutput(stdout) == trim(stdout) = T_active

\* stdout.trim().split('\n').filter(pid => pid.trim())
PidList(stdout) == SelectSeq(split(trim(stdout), T_nl[1]), LAMBDA x : trim(x) # <<>>)

\* --- CelestiaNodeStopper
StopSettleDelay == 3000
PollInterval == 3000
maxWaitTime == 30000
StopTimeout == 90000
StopRetries == 2
PollTimeout == 10000
QueryTimeout == 15000
QueryRetries == 2

\* The poll of verifyNodeStopped ends without the process list being empty,
\* preceded by a faulty variant (the verification timeout is a failure).
PollExhausted_fatal(st, o) == Finish(st, o, FALSE)
PollExhausted(st, o) == Finish(st, o, TRUE)

\* The process list query has printed NO_PROCESSES: verifyNodeStopped returns
\* and stopNode returns true; preceded by a faulty variant (the poll goes on).
PollAbsent_again(st, o) == Sleep(st, o, "stop.pollwait", PollInterval)
PollAbsent(st, o) == Finish(st, o, TRUE)

\* Date.now() - startTime < maxWaitTime, preceded by a faulty variant (the
\* poll goes on at the limit).
PollBudgetLeft_inclusive(elapsed) == elapsed <= maxWaitTime
PollBudgetLeft(elapsed) == elapsed < maxWaitTime

\* while (Date.now() - startTime < maxWaitTime) of verifyNodeStopped
verifyLoop(st, o) ==
  IF PollBudgetLeft(st.ops[o].elapsed)
    THEN runRemote(st, o, "stop.poll", PgrepOrNoneCmd, [timeout |-> PollTimeout])
    ELSE PollExhausted(st, o)

\* The stop command failed: stopSystemdService rethrows and stopNode returns
\* false; preceded by a faulty variant (the error is swallowed).
StopCmdFailed_swallowed(st, o) == verifyLoop(st, o)
StopCmdFailed(st, o) == Finish(st, o, FALSE)

stopNode(st, o) ==
  LET pc == st.ops[o].pc IN
  CASE pc = "begin" ->
         IF NoConnection(st.env) THEN Finish(st, o, FALSE)
         ELSE runRemote(st, o, "stop.cmd", StopCmd,
                        [timeout |-> StopTimeout, requiresSudo |-> TRUE, retries |-> StopRetries])
    [] pc = "stop.cmd" ->
         IF Ok(st, o) THEN Sleep(st, o, "stop.settle", StopSettleDelay) ELSE StopCmdFailed(st, o)
    [] pc = "stop.settle" ->
         runRemote(st, o, "stop.status", IsActiveCmd,
                   [timeout |-> QueryTimeout, retries |-> QueryRetries])
    [] pc = "stop.status" -> verifyLoop(st, o)
    [] pc = "stop.poll" ->
         IF ~Ok(st, o) THEN Finish(st, o, TRUE)
         ELSE IF trim(Out(st, o)) = T_noProcesses THEN PollAbsent(st, o)
         ELSE Sleep(st, o, "stop.pollwait", PollInterval)
    [] pc = "stop.pollwait" -> verifyLoop(st, o)

\* --- CelestiaNodeStarter
StartInitDelay == 3000
StartSettleDelay == 5000

\* The catch block of start(): return false; preceded by a faulty variant
\* (the error is thrown on).
StartCatch_rethrow(st, o) == Raise(st, o)
StartCatch(st, o) == Finish(st, o, FALSE)

\* isServiceRunning: false when the query fails; preceded by a faulty variant
\* (any answer of the query counts as running).
isServiceRunning_anyOutput(st, o) == Ok(st, o)
isServiceRunning(st, o) == Ok(st, o) /\ IsActiveOutput(Out(st, o))

start(st, o) ==
  LET pc == st.ops[o].pc IN
  CASE pc = "begin" ->
         IF NoConnection(st.env) THEN Finish(st, o, FALSE)
         ELSE runRemote(st, o, "start.check", IsActiveCmd, <<>>)
    [] pc = "start.check" ->
         IF isServiceRunning(st, o)
           THEN runRemote(st, o, "start.log", StatusLogCmd, <<>>)
           ELSE runRemote(st, o, "start.cmd", StartCmd, <<>>)
    [] pc = "start.log" -> IF Ok(st, o) THEN Finish(st, o, TRUE) ELSE StartCatch(st, o)
    [] pc = "start.cmd" ->
         IF Ok(st, o) THEN Sleep(st, o, "start.init", StartInitDelay) ELSE StartCatch(st, o)
    [] pc = "start.init" -> Sleep(st, o, "start.settle", StartSettleDelay)
    [] pc = "start.settle" -> runRemote(st, o, "start.recheck", IsActiveCmd, <<>>)
    [] pc = "start.recheck" ->
         IF isServiceRunning(st, o) THEN Finish(st, o, TRUE)
         ELSE runRemote(st, o, "start.diag", StatusDiagCmd, <<>>)
    [] pc = "start.diag" ->
         IF Ok(st, o) THEN runRemote(st, o, "start.journal", JournalCmd, <<>>)
         ELSE Finish(st, o, FALSE)
    [] pc = "start.journal" -> Finish(st, o, FALSE)

\* --- CelestiaNodeStatus
DumpTimeout == 30000
PsTimeout == 20000
T_noDetails == <<"Could not retrieve service details">>
T_noProcessDetails == <<"Could not retrieve process details">>
T_notConfigured == <<"Remote connection not configured">>

\* serviceStatus = serviceStatusResult.stdout.trim(), preceded by a faulty
\* variant (the output is not used).
ServiceStatusOf_unused(stdout) == T_unknown
ServiceStatusOf(stdout) == trim(stdout)

\* A diagnostic field: the trimmed output of the awaited command, or the
\* placeholder set in the catch block; preceded by a faulty variant (no catch
\* block: the field is taken from the failed command).
DetailsOf_raw(st, o, placeholder) == trim(Out(st, o))
DetailsOf(st, o, placeholder) == IF Ok(st, o) THEN trim(Out(st, o)) ELSE placeholder

\* const isRunning = serviceStatus === 'active' || processIds.length > 0,
\* preceded by a faulty variant (the process list is not consulted).
StatusReturn_serviceOnly(st, o) == Finish(st, o, st.ops[o].serviceStatus = T_active)
StatusReturn(st, o) ==
  Finish(st, o, st.ops[o].serviceStatus = T_active \/ Len(st.ops[o].processIds) > 0)

StatusPgrep(st, o) ==
  runRemote(st, o, "status.pgrep", PgrepCmd, [timeout |-> QueryTimeout, retries |-> QueryRetries])

\* The status returned when no connection is configured, preceded by a faulty
\* variant (the service status is left unset).
StatusNotConfigured_unknown(st, o) ==
  Finish([st EXCEPT !.ops[o].serviceStatus = T_unknown,
                    !.ops[o].processDetails = T_notConfigured,
                    !.ops[o].serviceDetails = T_notConfigured], o, FALSE)
StatusNotConfigured(st, o) ==
  Finish([st EXCEPT !.ops[o].serviceStatus = T_inactive,
                    !.ops[o].processDetails = T_notConfigured,
                    !.ops[o].serviceDetails = T_notConfigured], o, FALSE)

getStatus(st, o) ==
  LET pc == st.ops[o].pc IN
  CASE pc = "begin" ->
         IF NoConnection(st.env)
           THEN StatusNotConfigured(st, o)
           ELSE runRemote([st EXCEPT !.ops[o].serviceStatus = T_unknown], o, "status.active",
                          IsActiveCmd, [timeout |-> QueryTimeout, retries |-> QueryRetries])
    [] pc = "status.active" ->
         IF Ok(st, o)
           THEN runRemote([st EXCEPT !.ops[o].serviceStatus = ServiceStatusOf(Out(st, o))], o,
                          "status.dump", StatusDumpCmd,
                          [timeout |-> DumpTimeout, requiresSudo |-> TRUE, retries |-> QueryRetries])
           ELSE StatusPgrep([st EXCEPT !.ops[o].serviceDetails = T_noDetails], o)
    [] pc = "status.dump" ->
         StatusPgrep([st EXCEPT !.ops[o].serviceDetails = DetailsOf(st, o, T_noDetails)], o)
    [] pc = "status.pgrep" ->
         runRemote([st EXCEPT !.ops[o].processIds = IF Ok(st, o) THEN PidList(Out(st, o)) ELSE <<>>],
                   o, "status.ps", PsCmd, [timeout |-> PsTimeout, retries |-> QueryRetries])
    [] pc = "status.ps" ->
         StatusReturn([st EXCEPT !.ops[o].processDetails = DetailsOf(st, o, T_noProcessDetails)], o)

isCelestiaProcessesRunning(st, o) ==
  LET pc == st.ops[o].pc IN
  CASE pc = "begin" ->
         IF NoConnection(st.env) THEN Finish(st, o, FALSE)
         ELSE runRemote(st, o, "running.active", IsActiveCmd,
                        [timeout |-> QueryTimeout, retries |-> QueryRetries])
    [] pc = "running.active" ->
         IF Ok(st, o) /\ IsActiveOutput(Out(st, o)) THEN Finish(st, o, TRUE)
         ELSE runRemote(st, o, "running.pgrep", PgrepCmd,
                        [timeout |-> QueryTimeout, retries |-> QueryRetries])
    [] pc = "running.pgrep" -> Finish(st, o, Ok(st, o) /\ trim(Out(st, o)) # <<>>)

\* NodeLifecycleService: the operation resumes after its await.
OpStep(st, o) ==
  CASE st.ops[o].kind = "start" -> start(st, o)
    [] st.ops[o].kind = "stop" -> stopNode(st, o)
    [] st.ops[o].kind = "status" -> getStatus(st, o)
    [] st.ops[o].kind = "isRunning" -> isCelestiaProcessesRunning(st, o)

\* The operations whose awaited command has settled resume, in turn.
Resumable(st) ==
  {o \in DOMAIN st.ops : st.ops[o].call # NULL /\ st.calls[st.ops[o].call].pc \in {"returned", "threw"}}
RECURSIVE RunOps(_)
RunOps(st) ==
  IF Resumable(st) = {} THEN st
  ELSE RunOps(OpStep(st, CHOOSE o \in Resumable(st) : \A x \in Resumable(st) : o <= x))

\* The program after module load: empty pool, no reaper, nothing in flight.
InitProgram ==
  /\ connectionPool = [k \in Keys |-> NULL]
  /\ sessions = <<>>
  /\ poolCleanupInterval = NULL
  /\ intervals = <<>>
  /\ requests = <<>>
  /\ futures = <<>>
  /\ procs = <<>>
  /\ drain = <<>>
  /\ reaped = 0
  /\ calls = <<>>
  /\ ops = <<>>

NoProbe == [input |-> <<>>, applied |-> 0, once |-> <<>>, text |-> <<>>]
Configured == [remoteUser |-> "root", remoteHost |-> "h1"]
Stopped == [service |-> "inactive", process |-> FALSE]

Init ==
  /\ InitProgram
  /\ probe = NoProbe
  /\ remote = Stopped
  /\ environment = Configured

\* ----------------------------------------------------------------- actions
\* The messages of the errors the runner rejects with.
FailedMessage(code, trimmedStderr) ==
  <<"SSH command failed with code ", ToString(code), ": ">> \o trimmedStderr
TimeoutMessage(timeoutMs, cmd) ==
  <<"SSH command timeout after ", ToString(timeoutMs), "ms: ">> \o cmd
SpawnMessage == <<"spawn ssh ENOENT">>

\* if (code === 0) in the close handler, preceded by a faulty variant (exit
\* code 1 is taken for success too).
ExitOk_lenient(code) == code <= 1
ExitOk(code) == code = 0

\* A caller submits a command to the pool.
Submit(c, cmd, t) ==
  /\ Commit(executeRemoteCommandPooled(St, c, cmd, t))

\* ssh.on('close', code): the child process has exited.  The output of the
\* remote command arrives in one chunk.  The remote command
\* has had its effect and the output collected is normalized.
ProcClose(r, code) ==
  /\ r \in DOMAIN procs
  /\ procs[r].state \in {"running", "termed"}
  /\ \E rem \in Effects(futures[r].cmd, code, remote) :
       LET st1 == [St EXCEPT !.procs[r].state = "exited",
                             !.procs[r].finished = TRUE,
                             !.procs[r].timer = clearTimeout(@),
                             !.futs[r].stdout = IF ExitOk(code) /\ ~procs[r].settled
                                                  THEN normalizeMessage(onData(<<>>, Stdout(futures[r].cmd, rem)))
                                                  ELSE @,
                             !.futs[r].stderr = IF ExitOk(code) /\ ~procs[r].settled
                                                  THEN normalizeMessage(onData(<<>>, Stderr(futures[r].cmd, code)))
                                                  ELSE @,
                             !.futs[r].message =
                                IF ~ExitOk(code) /\ ~procs[r].settled
                                  THEN FailedMessage(code, normalizeMessage(Stderr(futures[r].cmd, code)))
                                  ELSE @,
                             !.remote = rem]
       IN Commit(Collect(RunOps(Settle(st1, r, ExitOk(code), "exit"))))

\* ssh.on('error', error): the child process could not be spawned.
ProcError(r) ==
  /\ r \in DOMAIN procs
  /\ procs[r].state = "running"
  /\ ~procs[r].finished
  /\ LET st1 == [St EXCEPT !.procs[r].state = "errored",
                           !.procs[r].finished = TRUE,
                           !.procs[r].timer = clearTimeout(@),
                           !.futs[r].message = IF procs[r].settled THEN @ ELSE SpawnMessage]
     IN Commit(Collect(RunOps(Settle(st1, r, FALSE, "transport"))))

\* The timeout timer of executeRemoteCommand fires.
TimeoutFire(r) ==
  /\ r \in DOMAIN procs
  /\ procs[r].timer = now
  /\ LET st0 == [St EXCEPT !.procs[r].timer = NoTimer]
         st1 == [Kill(st0, r, "SIGTERM") EXCEPT
                            !.procs[r].finished = TRUE,
                            !.procs[r].state = IF @ = "running" THEN "termed" ELSE @,
                            !.procs[r].killAt = KillDeadline(now),
                            !.futs[r].message = TimeoutMessage(futures[r].timeout, futures[r].cmd)]
     IN Commit(Collect(IF TimeoutPending(procs[r])
                         THEN RunOps(Settle(st1, r, FALSE, "timeout"))
                         ELSE st0))

\* The force-kill timer set by the timeout callback fires.
KillFire(r) ==
  /\ r \in DOMAIN procs
  /\ procs[r].killAt = now
  /\ LET st0 == [St EXCEPT !.procs[r].killAt = NoTimer]
         hasPid == procs[r].state # "errored"
     IN Commit(Collect(IF hasPid
                         THEN [Kill(st0, r, "SIGKILL") EXCEPT
                                 !.procs[r].state = IF @ = "termed" THEN "exited" ELSE @]
                         ELSE st0))

\* A caller invokes the command function returned by executeCommand.
Call(c, cmd, options) ==
  /\ Commit(executeRemoteCommandWithOptions(St, c, cmd, options))

\* The backoff delay of a policy loop ends: next iteration.
BackoffFire(c) ==
  /\ c \in DOMAIN calls
  /\ calls[c].pc = "backoff"
  /\ calls[c].wake = now
  /\ Commit(RetryLoop([St EXCEPT !.calls[c].attempt = @ + 1, !.calls[c].wake = NoTimer,
                                 !.calls[c].waits = Append(@, calls[c].waited)], c))

\* A caller invokes a lifecycle operation; callers await each operation
\* before invoking the next.
Invoke(kind) ==
  /\ \A o \in DOMAIN ops : ops[o].pc = "done"
  /\ Commit(Collect(OpStep([St EXCEPT !.ops = Append(@, NewOp(kind))], Len(ops) + 1)))

\* A sleep of a lifecycle operation ends.
OpWake(o) ==
  /\ o \in DOMAIN ops
  /\ ops[o].wake = now
  /\ Commit(Collect(OpStep([St EXCEPT !.ops[o].wake = NoTimer], o)))

\* The node process on the remote host, no longer kept by the service, exits.
ProcessExit ==
  /\ remote.service = "inactive"
  /\ remote.process
  /\ Commit([St EXCEPT !.remote.process = FALSE])

\* The service that a start command has left starting becomes active.
ServiceReady ==
  /\ remote.service = "activating"
  /\ Commit([St EXCEPT !.remote.service = "active"])

\* The 100 ms inter-command delay of a drain loop ends.
DelayFire(s) ==
  /\ s \in DOMAIN drain
  /\ drain[s].pc = "delay"
  /\ drain[s].wake = now
  /\ Commit(DrainLoop(St, s))

RECURSIVE ReapAll(_, _)
ReapAll(st, ks) ==
  IF ks = {} THEN st
  ELSE LET k == CHOOSE x \in ks : TRUE
           s == st.pool[k]
           st1 == IF s # NULL /\ IsIdleExpired(st.sess[s])
                    THEN [st EXCEPT !.pool[k] = NULL, !.reaped = @ + 1]
                    ELSE st
       IN ReapAll(st1, ks \ {k})

\* One tick of the setInterval callback of startPoolCleanup.
ReaperTick(h) ==
  /\ h \in DOMAIN intervals
  /\ intervals[h] = now
  /\ LET st0 == [St EXCEPT !.ivl[h] = now + CleanupPeriod]
         st1 == ReapAll(st0, Keys)
         st2 == IF ShouldStopCleanup(st1) THEN stopPoolCleanup(st1) ELSE st1
     IN Commit(Collect(st2))

\* SshService.cleanupConnectionPool()
Teardown ==
  /\ Commit(cleanupConnectionPool(St))

Deadlines ==
  {procs[r].timer : r \in DOMAIN procs} \cup {procs[r].killAt : r \in DOMAIN procs}
    \cup {drain[s].wake : s \in DOMAIN drain} \cup {intervals[h] : h \in DOMAIN intervals}
    \cup {calls[c].wake : c \in DOMAIN calls} \cup {ops[o].wake : o \in DOMAIN ops}
PendingDeadlines == Deadlines \ {NoTimer}
NextDeadline == CHOOSE d \in PendingDeadlines : \A e \in PendingDeadlines : d <= e

\* Moving the time origin d ms forward.  A last-used timestamp older than
\* the idle threshold is kept just beyond it: it is only ever compared with
\* the threshold.
Older(t, d) == IF t = NoTimer THEN NoTimer ELSE t - d
Oldest == now - maxIdleTime - 1
Shift(st, d) ==
  [st EXCEPT !.procs = [r \in DOMAIN @ |-> [@[r] EXCEPT !.timer = Older(@, d), !.killAt = Older(@, d),
                                                         !.age = @ + d]],
             !.drain = [s \in DOMAIN @ |-> [@[s] EXCEPT !.wake = Older(@, d)]],
             !.calls = [c \in DOMAIN @ |->
                          [@[c] EXCEPT !.wake = Older(@, d),
                                       !.waited = IF st.calls[c].pc = "backoff" THEN @ + d ELSE @]],
             !.ops = [o \in DOMAIN @ |->
                        [@[o] EXCEPT !.wake = Older(@, d),
                                     !.elapsed = IF st.ops[o].pc \in {"stop.poll", "stop.pollwait"}
                                                   THEN @ + d ELSE @]],
             !.ivl = [h \in DOMAIN @ |-> @[h] - d],
             !.sess = [s \in DOMAIN @ |->
                         [@[s] EXCEPT !.lastUsed = IF @ - d < Oldest THEN Oldest ELSE @ - d]]]

\* Time passes up to the next timer deadline.
Advance ==
  /\ PendingDeadlines # {}
  /\ NextDeadline > now
  /\ Commit(Shift(St, NextDeadline - now))

Runner ==
  \/ \E r \in DOMAIN procs, code \in ExitCodes : ProcClose(r, code)
  \/ \E r \in DOMAIN procs : ProcError(r)

Timers ==
  \/ \E r \in DOMAIN procs : TimeoutFire(r)
  \/ \E r \in DOMAIN procs : KillFire(r)
  \/ \E s \in DOMAIN drain : DelayFire(s)
  \/ \E h \in DOMAIN intervals : ReaperTick(h)

Pending(r) == futures[r].status \in {"queued", "inflight"}
Settled(r) == futures[r].status \in {"resolved", "rejected"}
Started(r) == futures[r].status # "queued"
Alive(r) == r \in DOMAIN procs /\ procs[r].state \in {"running", "termed"}

\* Callers with the default timeout; teardown at any moment.
Next ==
  \/ \E c \in Connections, cmd \in Cmds, t \in Timeouts :
        Len(futures) < MaxReqs /\ Submit(c, cmd, t)
  \/ Runner
  \/ Timers
  \/ Teardown
  \/ Advance

Spec == Init /\ [][Next]_vars

\* Callers that tear the pool down only after awaiting all their requests.
NextAwaited ==
  \/ \E c \in Connections, cmd \in Cmds, t \in Timeouts :
        Len(futures) < MaxReqs /\ Submit(c, cmd, t)
  \/ Runner
  \/ Timers
  \/ (\A r \in DOMAIN futures : Settled(r)) /\ Teardown
  \/ Advance

SpecAwaited == Init /\ [][NextAwaited]_vars

\* Callers submitting long-running commands (the 5 minute timeout of the
\* node initialisation).
NextLong ==
  \/ \E c \in Connections, cmd \in Cmds, t \in LongTimeouts :
        Len(futures) < MaxLongReqs /\ Submit(c, cmd, t)
  \/ Runner
  \/ Timers
  \/ Teardown
  \/ Advance

SpecLong == Init /\ [][NextLong]_vars

\* The event loop runs every due timer callback and time does not stop.
\* Nothing is assumed of the remote processes.
NextLive ==
  \/ \E c \in Connections, cmd \in Cmds, t \in Timeouts :
        Len(futures) < MaxLiveReqs /\ Submit(c, cmd, t)
  \/ Runner
  \/ Timers
  \/ Teardown
  \/ Advance

FairSpec == Init /\ [][NextLive]_vars /\ WF_vars(Timers) /\ WF_vars(Advance)

\* Callers of the pool whose remote commands exit with any of the codes of
\* AllExitCodes (255 is the code of ssh itself).
AllExitCodes == {0, 1, 255}
NextRunner ==
  \/ \E c \in Connections, cmd \in Cmds, t \in Timeouts :
        Len(futures) < MaxLiveReqs /\ Submit(c, cmd, t)
  \/ \E r \in DOMAIN procs, code \in AllExitCodes : ProcClose(r, code)
  \/ \E r \in DOMAIN procs : ProcError(r)
  \/ Timers
  \/ Advance

SpecRunner == Init /\ [][NextRunner]_vars

\* Callers of the command function: plain and sudo commands, with and
\* without retries.
PolicyCmds == {T_ls, T_sudo \o T_sp \o T_ls}
PolicyOptions == {<<>>} \cup [retries : 0..MaxRetries]
PolicyConnections == {c \in Connections : c.remoteHost = "h1"}
Finished(c) == calls[c].pc \in {"returned", "threw"}

NextPolicy ==
  \/ \E c \in PolicyConnections, cmd \in PolicyCmds, o \in PolicyOptions :
        Len(calls) < MaxCalls /\ Call(c, cmd, o)
  \/ Runner
  \/ Timers
  \/ \E c \in DOMAIN calls : BackoffFire(c)
  \/ (\A c \in DOMAIN calls : Finished(c)) /\ Teardown
  \/ Advance

SpecPolicy == Init /\ [][NextPolicy]_vars

\* The sudo rewrite applied repeatedly to command texts built from the
\* tokens the rewrite looks at.
Tokens == {T_sudo, T_sp, T_n, T_ls}
RECURSIVE Flatten(_)
Flatten(ts) == IF ts = <<>> THEN <<>> ELSE Head(ts) \o Flatten(Tail(ts))
CommandTexts == {Flatten(ts) : ts \in UNION {[1..n -> Tokens] : n \in 0..MaxTokens}}

InitRewrite ==
  /\ InitProgram
  /\ \E t \in CommandTexts : probe = [input |-> t, applied |-> 0, once |-> t, text |-> t]
  /\ remote = Stopped
  /\ environment = Configured

Rewrite ==
  /\ probe.applied < MaxApply
  /\ probe' = [probe EXCEPT !.applied = @ + 1,
                            !.once = IF probe.applied = 0 THEN modifiedCommand(probe.text) ELSE @,
                            !.text = modifiedCommand(@)]
  /\ UNCHANGED <<connectionPool, sessions, poolCleanupInterval, intervals,
                 requests, futures, procs, drain, reaped, calls, ops, remote, environment>>

NextRewrite == Rewrite

SpecRewrite == InitRewrite /\ [][NextRewrite]_vars

\* Callers of the command function with commands that invoke sudo first,
\* later, twice or not at all, with and without the requiresSudo option.
SudoCmds ==
  {T_ls,
   Flatten(<<T_sudo, T_sp, T_ls>>),
   Flatten(<<T_sudo, T_sp, T_n, T_sp, T_ls>>),
   Flatten(<<T_ls, T_sp, T_sudo, T_sp, T_ls>>),
   Flatten(<<T_sudo, T_sp, T_ls, T_sp, T_sudo, T_sp, T_ls>>),
   Flatten(<<T_sudo, T_sp, T_ls, T_sp, T_sudo, T_sp, T_n, T_sp, T_ls>>)}
SudoOptions == {<<>>, [requiresSudo |-> TRUE], [requiresSudo |-> FALSE]}
NextSudo ==
  \/ \E c \in PolicyConnections, cmd \in SudoCmds, o \in SudoOptions :
        Len(calls) < MaxCalls /\ Call(c, cmd, o)
  \/ Runner
  \/ Timers
  \/ Advance

SpecSudo == Init /\ [][NextSudo]_vars

\* The output stream of one remote command, delivered by the transport in
\* chunks of any sizes to the data handler, and the close handler after the
\* last chunk.  probe holds the stream, what is still to be delivered, the
\* accumulated stdout of the runner and the stdout of the result.
Bytes == {"1", "2", "\n", " "}
Streams == UNION {[1..n -> Bytes] : n \in 0..MaxStream}

InitChunks ==
  /\ InitProgram
  /\ \E s \in Streams :
        probe = [stream |-> s, rest |-> s, chunks |-> 0, stdout |-> <<>>, closed |-> FALSE,
                 result |-> <<>>]
  /\ remote = Stopped
  /\ environment = Configured

OnData(n) ==
  /\ ~probe.closed
  /\ n \in 1..Len(probe.rest)
  /\ probe' = [probe EXCEPT !.rest = SubSeq(@, n + 1, Len(@)),
                            !.chunks = @ + 1,
                            !.stdout = onData(@, SubSeq(probe.rest, 1, n))]
  /\ UNCHANGED <<connectionPool, sessions, poolCleanupInterval, intervals,
                 requests, futures, procs, drain, reaped, calls, ops, remote, environment>>

OnClose ==
  /\ ~probe.closed
  /\ probe.rest = <<>>
  /\ probe' = [probe EXCEPT !.closed = TRUE, !.result = normalizeMessage(probe.stdout)]
  /\ UNCHANGED <<connectionPool, sessions, poolCleanupInterval, intervals,
                 requests, futures, procs, drain, reaped, calls, ops, remote, environment>>

NextChunks ==
  \/ \E n \in 1..MaxStream : OnData(n)
  \/ OnClose

SpecChunks == InitChunks /\ [][NextChunks]_vars

\* Callers of the lifecycle operations, one operation at a time, against a
\* remote host in any state and with or without a configured identity.
OpKinds == {"start", "stop", "status", "isRunning"}
Environments == [remoteUser : {"root", ""}, remoteHost : {"h1", ""}]
Remotes == [service : {"active", "inactive"}, process : BOOLEAN]

InitLifecycle ==
  /\ InitProgram
  /\ probe = NoProbe
  /\ remote \in Remotes
  /\ environment \in Environments

NextLifecycle ==
  \/ \E kind \in OpKinds : Len(ops) < MaxOps /\ Invoke(kind)
  \/ Runner
  \/ Timers
  \/ \E c \in DOMAIN calls : BackoffFire(c)
  \/ \E o \in DOMAIN ops : OpWake(o)
  \/ ProcessExit
  \/ Advance

SpecLifecycle == InitLifecycle /\ [][NextLifecycle]_vars

\* Callers of stop() alone, and of start() alone.
NextStop ==
  \/ Len(ops) < MaxOps /\ Invoke("stop")
  \/ Runner
  \/ Timers
  \/ \E c \in DOMAIN calls : BackoffFire(c)
  \/ \E o \in DOMAIN ops : OpWake(o)
  \/ ProcessExit
  \/ Advance

SpecStop == InitLifecycle /\ [][NextStop]_vars


NextStart ==
  \/ Len(ops) < MaxOps /\ Invoke("start")
  \/ Runner
  \/ Timers
  \/ \E o \in DOMAIN ops : OpWake(o)
  \/ ProcessExit
  \/ ServiceReady
  \/ Advance

SpecStart == InitLifecycle /\ [][NextStart]_vars

\* A caller stops or starts the node and, once that has returned true, asks
\* for the status.  Nothing but the stop and start commands changes the state
\* of the service.  A remote command completes at once or hangs until its
\* timeout, and at most MaxFaults command attempts fail.
InitThenStatus ==
  /\ InitProgram
  /\ probe = NoProbe
  /\ remote \in Remotes
  /\ environment = Configured

Faults == Cardinality({r \in DOMAIN futures : futures[r].status = "rejected"})
MayFail == Faults < MaxFaults

RunnerPrompt ==
  \/ \E r \in DOMAIN procs, code \in ExitCodes :
        procs[r].age = 0 /\ (code # 0 => MayFail) /\ ProcClose(r, code)
  \/ \E r \in DOMAIN procs : procs[r].age = 0 /\ MayFail /\ ProcError(r)

AdvanceHang == ((\E r \in DOMAIN procs : procs[r].state = "running") => MayFail) /\ Advance

NextThenStatus ==
  \/ \E kind \in {"stop", "start"} : Len(ops) = 0 /\ Invoke(kind)
  \/ Len(ops) = 1 /\ ops[1].value /\ Invoke("status")
  \/ RunnerPrompt
  \/ Timers
  \/ \E c \in DOMAIN calls : BackoffFire(c)
  \/ \E o \in DOMAIN ops : OpWake(o)
  \/ ProcessExit
  \/ AdvanceHang

SpecThenStatus == InitThenStatus /\ [][NextThenStatus]_vars

\* A caller of stop() on an event loop that runs every timer that is due and
\* lets the time pass.  A remote command completes at once or hangs until its
\* timeout, and at most MaxFaults command attempts fail.
NextStopFair ==
  \/ Len(ops) < MaxOps /\ Invoke("stop")
  \/ RunnerPrompt
  \/ Timers
  \/ \E c \in DOMAIN calls : BackoffFire(c)
  \/ \E o \in DOMAIN ops : OpWake(o)
  \/ ProcessExit
  \/ AdvanceHang

\* The conditions under which a completion of a prompt command, a timer, a
\* backoff delay and a sleep of an operation are due.
PromptDue == \E r \in DOMAIN procs : procs[r].age = 0 /\ procs[r].state = "running"
TimerDue ==
  \/ \E r \in DOMAIN procs : procs[r].timer = now \/ procs[r].killAt = now
  \/ \E s \in DOMAIN drain : drain[s].pc = "delay" /\ drain[s].wake = now
  \/ \E h \in DOMAIN intervals : intervals[h] = now
BackoffDue == \E c \in DOMAIN calls : calls[c].pc = "backoff" /\ calls[c].wake = now
WakeDue == \E o \in DOMAIN ops : ops[o].wake = now

\* Weak fairness of each kind of event: what is due does not stay due for
\* ever without being run.  Where the event runs the continuations of the
\* operation, its enabling condition is written out.
FairStop ==
  /\ InitThenStatus /\ [][NextStopFair]_vars
  /\ WF_vars(AdvanceHang)
  /\ ([]<>(~PromptDue) \/ []<><<RunnerPrompt>>_vars)
  /\ ([]<>(~TimerDue) \/ []<><<Timers>>_vars)
  /\ ([]<>(~BackoffDue) \/ []<><<\E c \in DOMAIN calls : BackoffFire(c)>>_vars)
  /\ ([]<>(~WakeDue) \/ []<><<\E o \in DOMAIN ops : OpWake(o)>>_vars)

\* A caller asks isCelestiaProcessesRunning() and getStatus(), one after the
\* other in either order, with the same remote commands.
NextAgree ==
  \/ \E kind \in {"isRunning", "status"} : Len(ops) = 0 /\ Invoke(kind)
  \/ \E kind \in {"isRunning", "status"} : Len(ops) = 1 /\ ops[1].kind # kind /\ Invoke(kind)
  \/ RunnerPrompt
  \/ Timers
  \/ \E c \in DOMAIN calls : BackoffFire(c)
  \/ ProcessExit
  \/ AdvanceHang

SpecAgree == InitThenStatus /\ [][NextAgree]_vars

\* One caller of the command function with a retry, while other callers
\* submit commands of the same identity to the pool.  A remote command
\* completes at once or hangs until its timeout, and at most MaxFaults
\* command attempts fail.
Direct == {r \in DOMAIN futures : \A c \in DOMAIN calls : \A i \in DOMAIN calls[c].reqs : calls[c].reqs[i] # r}
NextRetryQueue ==
  \/ \E c \in PolicyConnections, cmd \in PolicyCmds :
        Len(calls) < MaxCalls /\ Call(c, cmd, [retries |-> 2])
  \/ \E c \in PolicyConnections, t \in Timeouts :
        Cardinality(Direct) < MaxLiveReqs /\ Submit(c, T_ls, t)
  \/ RunnerPrompt
  \/ Timers
  \/ \E c \in DOMAIN calls : BackoffFire(c)
  \/ AdvanceHang

SpecRetryQueue == Init /\ [][NextRetryQueue]_vars

\* Callers of the command function that ask for no attempt at all, on either
\* path, while other callers submit commands of the same identity to the
\* pool, with the same remote commands.
NoRetries == {0, -1}
NextNoRetries ==
  \/ \E c \in PolicyConnections, cmd \in PolicyCmds, n \in NoRetries :
        Len(calls) < MaxCalls /\ Call(c, cmd, [retries |-> n])
  \/ \E c \in PolicyConnections, t \in Timeouts :
        Cardinality(Direct) < MaxLiveReqs /\ Submit(c, T_ls, t)
  \/ RunnerPrompt
  \/ Timers
  \/ AdvanceHang

SpecNoRetries == Init /\ [][NextNoRetries]_vars

TypeOK ==
  /\ \A k \in Keys : connectionPool[k] = NULL \/ connectionPool[k] \in DOMAIN sessions
  /\ poolCleanupInterval \in {NULL} \cup DOMAIN intervals
  /\ \A s \in DOMAIN drain : s \in DOMAIN sessions /\ sessions[s].isActive
  /\ DOMAIN requests = {r \in DOMAIN futures : Pending(r)}

\* ------------------------------------------------------------------ claims
InFlightOf(k) == {r \in DOMAIN futures : futures[r].key = k /\ futures[r].status = "inflight"}
QueuedIn(s) == {i \in 1..Len(sessions[s].commandQueue) : TRUE}
Occurrences(r) ==
  Cardinality({<<s, i>> \in UNION {{<<x, j>> : j \in QueuedIn(x)} : x \in DOMAIN sessions} :
                 sessions[s].commandQueue[i] = r})
TickJustFired ==
  poolCleanupInterval # NULL /\ intervals[poolCleanupInterval] = now + CleanupPeriod

\* C1: for every identity, at most one command of that identity is in flight
\* (dequeued and not yet resolved or rejected) at any instant.
C1_OneInFlightPerIdentity == \A k \in Keys : Cardinality(InFlightOf(k)) <= 1

\* C1 witness: a command is in flight while a later one of the same identity waits.
C1_Witness ==
  \E r1, r2 \in DOMAIN futures :
    /\ r1 < r2 /\ futures[r1].key = futures[r2].key
    /\ futures[r1].status = "inflight" /\ futures[r2].status = "queued"

\* C2: commands of one identity start in submission order and their futures
\* settle in submission order, whether earlier ones succeed or fail.
C2_FifoOrder ==
  \A r1, r2 \in DOMAIN futures :
    (r1 < r2 /\ futures[r1].key = futures[r2].key) =>
      /\ Started(r2) => Started(r1)
      /\ Settled(r2) => Settled(r1)

\* C2 witness: three commands of one identity have all settled, the first by failing.
C2_Witness ==
  \E r1, r2, r3 \in DOMAIN futures :
    /\ r1 < r2 /\ r2 < r3
    /\ futures[r1].key = futures[r2].key /\ futures[r2].key = futures[r3].key
    /\ futures[r1].status = "rejected" /\ futures[r2].status = "resolved" /\ Settled(r3)
    /\ futures[r2].busyAtSubmit /\ futures[r3].busyAtSubmit

\* C3: every submitted request is eventually resolved or rejected, for every
\* interleaving of submits, drain steps, reaper ticks and teardowns.
C3_EventuallySettled ==
  \A r \in 1..MaxLiveReqs : (r \in DOMAIN futures) ~> (r \in DOMAIN futures /\ Settled(r))

\* C3 witness: a request appended while its session was busy has been settled.
C3_Witness == \E r \in DOMAIN futures : futures[r].busyAtSubmit /\ Settled(r)

\* C4: every request is handed to the runner exactly once (one process
\* spawned) and, once dequeued, is never on a queue again.
C4_SpawnedOnce ==
  \A r \in DOMAIN futures :
    /\ futures[r].spawned <= 1
    /\ Started(r) => (futures[r].spawned = 1 /\ Occurrences(r) = 0)
    /\ ~Started(r) => (futures[r].spawned = 0 /\ Occurrences(r) = 1)

\* C4 witness: a request whose run failed by timeout stays rejected, spawned once,
\* while a later request of the same identity has been started after it.
C4_Witness ==
  \E r1, r2 \in DOMAIN futures :
    /\ r1 < r2 /\ futures[r1].key = futures[r2].key
    /\ futures[r1].status = "rejected" /\ futures[r1].error = "timeout" /\ futures[r1].spawned = 1
    /\ Started(r2)

\* C5: no two remote processes of one identity are alive at the same time,
\* also after a timeout whose process has not yet exited.
C5_NoOverlap ==
  \A r1, r2 \in DOMAIN procs :
    (r1 # r2 /\ futures[r1].key = futures[r2].key) => ~(Alive(r1) /\ Alive(r2))

\* C6: a reaper tick never removes a session that is busy, has a non-empty
\* queue or has a request in flight.
C6_ReaperSparesBusy ==
  [][\A k \in Keys :
       (reaped' > reaped /\ connectionPool[k] # NULL /\ connectionPool'[k] = NULL) =>
         /\ ~sessions[connectionPool[k]].isActive
         /\ sessions[connectionPool[k]].commandQueue = <<>>
         /\ \A r \in DOMAIN requests : requests[r].session # connectionPool[k]]_vars

\* C6 witness: a tick has just run and has kept a busy session whose last use
\* is more than 5 minutes in the past.
C6_Witness ==
  /\ TickJustFired
  /\ \E k \in Keys :
       /\ connectionPool[k] # NULL
       /\ sessions[connectionPool[k]].isActive
       /\ now - sessions[connectionPool[k]].lastUsed > 300000
       /\ \E r \in DOMAIN requests : requests[r].session = connectionPool[k]

\* C7: a reaper tick removes exactly the sessions that are not busy and whose
\* last use is more than 5 minutes in the past; the last-used time is set to
\* the current time by every submit and when a drain completes.
C7_ReapRule ==
  [][/\ (\E h \in DOMAIN intervals : ReaperTick(h)) =>
          \A k \in Keys : connectionPool[k] # NULL =>
            ((connectionPool'[k] = NULL) <=>
               (~sessions[connectionPool[k]].isActive
                  /\ now - sessions[connectionPool[k]].lastUsed > 300000))
     /\ Len(futures') > Len(futures) =>
          sessions'[requests'[Len(futures')].session].lastUsed = now
     /\ \A s \in DOMAIN sessions \cap DOMAIN sessions' :
          (sessions[s].isActive /\ ~sessions'[s].isActive) => sessions'[s].lastUsed = now]_vars

\* C7 witness: one tick has removed a stale session and kept an idle session
\* whose last use is exactly 5 minutes in the past.
C7_Witness ==
  /\ TickJustFired
  /\ reaped >= 1
  /\ \E k \in Keys :
       /\ connectionPool[k] # NULL
       /\ ~sessions[connectionPool[k]].isActive
       /\ now - sessions[connectionPool[k]].lastUsed = 300000

\* C8: the reaper timer is armed exactly when the pool holds a session, and
\* there is never more than one reaper timer.
C8_ReaperArmedIffSessions ==
  /\ (poolCleanupInterval # NULL) <=> (\E k \in Keys : connectionPool[k] # NULL)
  /\ DOMAIN intervals = IF poolCleanupInterval = NULL THEN {} ELSE {poolCleanupInterval}

\* C8 witness: the first session was reaped, which stopped the reaper, and the
\* second request created a session again and re-armed it.
C8_Witness ==
  /\ Len(futures) = 2 /\ reaped = 1
  /\ poolCleanupInterval = 2
  /\ \E k \in Keys : connectionPool[k] = 2

\* C9: a teardown step leaves the pool empty and the reaper stopped, whatever
\* the state before it.
C9_TeardownClearsAll ==
  [][Teardown =>
       /\ \A k \in Keys : connectionPool'[k] = NULL
       /\ poolCleanupInterval' = NULL
       /\ DOMAIN intervals' = {}]_vars

\* C9 witness: the pool has been torn down while a session was busy with a
\* non-empty queue.
C9_Witness ==
  /\ \A k \in Keys : connectionPool[k] = NULL
  /\ poolCleanupInterval = NULL
  /\ \E s \in DOMAIN sessions : sessions[s].isActive /\ Len(sessions[s].commandQueue) > 0

\* C10: a command waits only for commands of its own session: a request is
\* queued only while the drain loop of its own identity is running.
C10_IndependentIdentities ==
  \A r \in DOMAIN requests :
    futures[r].status = "queued" =>
      /\ requests[r].session \in DOMAIN drain
      /\ PoolKey(sessions[requests[r].session].connection) = futures[r].key

\* C10 witness: identity A has a command in flight and one queued, and a
\* command submitted to identity B after them is in flight as well.
C10_Witness ==
  \E a1, a2, b \in DOMAIN futures :
    /\ a1 < a2 /\ a2 < b
    /\ futures[a1].key = futures[a2].key /\ futures[b].key # futures[a1].key
    /\ futures[a1].status = "inflight" /\ futures[a2].status = "queued"
    /\ futures[b].status = "inflight"

Sigterm(r) == [sig |-> "SIGTERM", at |-> futures[r].timeout]
Sigkill(r) == [sig |-> "SIGKILL", at |-> futures[r].timeout + 5000]
TimedOut(r) == futures[r].status = "rejected" /\ futures[r].error = "timeout"

\* C11: a process that does not exit is sent SIGTERM exactly when its timeout
\* elapses, and the caller fails with the timeout error in that same step; it
\* is sent SIGKILL 5000 ms after the timeout; SIGTERM precedes SIGKILL and no
\* signal is sent before the timeout.
C11_TimeoutEscalation ==
  /\ [](\A r \in DOMAIN futures :
          /\ futures[r].signals \in {<<>>, <<Sigterm(r)>>, <<Sigterm(r), Sigkill(r)>>}
          /\ (r \in DOMAIN procs /\ procs[r].state = "running") =>
                (procs[r].age <= futures[r].timeout /\ futures[r].signals = <<>>)
          /\ (r \in DOMAIN procs /\ procs[r].state = "termed") =>
                /\ procs[r].age <= futures[r].timeout + 5000
                /\ futures[r].signals = <<Sigterm(r)>>
                /\ TimedOut(r))
  /\ [][\A r \in DOMAIN futures :
          /\ (futures[r].signals = <<>> /\ futures'[r].signals # <<>>) =>
                (futures[r].status = "inflight" /\ futures'[r].status = "rejected"
                   /\ futures'[r].error = "timeout")
          /\ (r \in DOMAIN procs /\ procs[r].state = "termed" /\ KillFire(r)) =>
                futures'[r].signals = <<Sigterm(r), Sigkill(r)>>]_vars

\* C11 witness: a request has failed by timeout and its process, which did not
\* exit, has been sent SIGTERM at the timeout and SIGKILL 5000 ms later.
C11_Witness ==
  \E r \in DOMAIN futures :
    /\ TimedOut(r)
    /\ futures[r].signals = <<[sig |-> "SIGTERM", at |-> 30000], [sig |-> "SIGKILL", at |-> 35000]>>

\* The requests submitted to the pool by call c.
AttemptsOf(c) == {calls[c].reqs[i] : i \in DOMAIN calls[c].reqs}

\* C12: a call with retries = R >= 1 whose attempts all fail has submitted its
\* command to the pool exactly R times, on the sudo path and on the plain
\* path, and fails with the error of attempt R itself.
C12_ErrorOfLastAttempt ==
  \A c \in DOMAIN calls :
    (calls[c].pc = "threw" /\ calls[c].retries >= 1) =>
      /\ Len(calls[c].reqs) = calls[c].retries
      /\ Cardinality(AttemptsOf(c)) = calls[c].retries
      /\ \A r \in AttemptsOf(c) : futures[r].cmd = calls[c].command
      /\ \A r \in DOMAIN futures : \E d \in DOMAIN calls : r \in AttemptsOf(d)
      /\ \A d \in DOMAIN calls : d # c => AttemptsOf(d) \cap AttemptsOf(c) = {}
      /\ \A i \in DOMAIN calls[c].reqs : futures[calls[c].reqs[i]].status = "rejected"
      /\ calls[c].result.from = calls[c].reqs[calls[c].retries]
      /\ calls[c].result.error = futures[calls[c].reqs[calls[c].retries]].error

\* C12 witness: a sudo call with 3 retries has failed three times, first by a
\* nonzero exit and last by timeout, and has thrown the timeout error.
C12_Witness ==
  \E c \in DOMAIN calls :
    /\ calls[c].pc = "threw" /\ calls[c].retries = 3 /\ calls[c].path = "sudo"
    /\ Len(calls[c].reqs) = 3
    /\ futures[calls[c].reqs[1]].error = "exit"
    /\ futures[calls[c].reqs[3]].error = "timeout"
    /\ calls[c].result.error = "timeout"

\* C13: the sudo -n rewrite is idempotent: for every command text, rewriting
\* the rewritten text gives the text obtained by rewriting once.
C13_RewriteIdempotent ==
  probe.applied >= 2 => probe.text = probe.once

\* C13 witness: a command starting with 'sudo ' has been rewritten twice and
\* its first rewriting inserted the -n flag.
C13_Witness ==
  /\ probe.applied = 2
  /\ probe.input = T_sudo \o T_sp \o T_ls
  /\ probe.once = T_sudo \o T_sp \o T_n \o T_sp \o T_ls
  /\ probe.once # probe.input

Done(o) == ops[o].pc = "done"
CallOf(o, i) == calls[ops[o].issued[i]]
Returned(o, i) == CallOf(o, i).pc = "returned"
Threw(o, i) == CallOf(o, i).pc = "threw"
OutputOf(o, i) == futures[CallOf(o, i).result.from].stdout
Submitted(cmd) == {r \in DOMAIN futures : futures[r].cmd = cmd}
\* The requests submitted to the pool by operation o, and those of a command.
ReqsOf(o) == UNION {{CallOf(o, i).reqs[j] : j \in DOMAIN CallOf(o, i).reqs} : i \in DOMAIN ops[o].issued}
SubmittedBy(o, cmd) == {r \in ReqsOf(o) : futures[r].cmd = cmd}

\* C14: when the stop command has succeeded, stop() returns true, also when
\* the quiescence poll runs out of its 30 s with the process still there and
\* when the status check or a process-list check after the stop command fails.
C14_StopSucceedsAfterStopCommand ==
  \A o \in DOMAIN ops :
    (ops[o].kind = "stop" /\ Done(o) /\ Len(ops[o].issued) >= 1 /\ Returned(o, 1)) =>
      (ops[o].value = TRUE /\ ~ops[o].raised)

\* C14 witness: stop() has returned after a successful stop command, a failed
\* status check and ten process-list queries that all still found the process.
C14_Witness ==
  \E o \in DOMAIN ops :
    /\ ops[o].kind = "stop" /\ Done(o) /\ ops[o].value
    /\ Len(ops[o].issued) = 12
    /\ Returned(o, 1) /\ Threw(o, 2)
    /\ \A i \in 3..12 : Returned(o, i) /\ trim(OutputOf(o, i)) = T_pid
    /\ remote.process

\* C15: the stop command is submitted at most 2 times; when every attempt has
\* failed, stop() returns false and no process-list query is issued.
C15_StopCommandFatal ==
  \A o \in DOMAIN ops :
    (ops[o].kind = "stop" /\ Len(ops[o].issued) >= 1) =>
      /\ Len(CallOf(o, 1).reqs) <= 2
      /\ Cardinality(SubmittedBy(o, modifiedCommand(StopCmd))) <= 2
      /\ \A r \in Submitted(modifiedCommand(StopCmd)) : \E p \in DOMAIN ops : r \in ReqsOf(p)
      /\ Threw(o, 1) =>
           /\ Done(o) /\ ops[o].value = FALSE /\ ~ops[o].raised
           /\ Len(ops[o].issued) = 1
           /\ SubmittedBy(o, PgrepOrNoneCmd) = {}
           /\ \A r \in Submitted(PgrepOrNoneCmd) : \E p \in DOMAIN ops : p # o /\ r \in ReqsOf(p)

\* C15 witness: stop() has returned false after two failed attempts of the
\* stop command.
C15_Witness ==
  \E o \in DOMAIN ops :
    /\ ops[o].kind = "stop" /\ Done(o) /\ ~ops[o].value
    /\ Len(ops[o].issued) = 1 /\ Threw(o, 1)
    /\ Len(CallOf(o, 1).reqs) = 2
    /\ \A r \in SubmittedBy(o, modifiedCommand(StopCmd)) : futures[r].status = "rejected"

StopThenStatus == Len(ops) = 2 /\ ops[1].kind = "stop" /\ ops[1].value /\ Done(2)
StartThenStatus == Len(ops) = 2 /\ ops[1].kind = "start" /\ ops[1].value /\ Done(2)

C17_StartAlreadyActive ==
  \A o \in DOMAIN ops :
    (ops[o].kind = "start" /\ Done(o) /\ Len(ops[o].issued) >= 1
       /\ Returned(o, 1) /\ trim(OutputOf(o, 1)) = T_active) =>
      /\ ops[o].value = TRUE
      /\ Submitted(modifiedCommand(StartCmd)) = {}

C19_OperationsNeverRaise ==
  \A o \in DOMAIN ops :
    /\ ~ops[o].raised
    /\ ops[o].value \in BOOLEAN
    /\ (Done(o) /\ ops[o].kind = "status") => ops[o].serviceStatus # <<>>

\* C19 witness: the start command of a start() has failed and the operation
\* has completed with false.
C19_Witness ==
  /\ Len(ops) = 1 /\ ops[1].kind = "start" /\ Done(1)
  /\ Len(ops[1].issued) = 2
  /\ CallOf(1, 2).cmd = StartCmd /\ Threw(1, 2)
  /\ ops[1].value = FALSE /\ ~ops[1].raised

\* C20: when the user or the host is missing, start(), stop() and
\* isProcessRunning() return false and status() returns isRunning false,
\* serviceStatus 'inactive' and no process ids, without raising; no command
\* is submitted, no session is created and the reaper is not armed.
C20_NoIdentityNoEffect ==
  NoConnection(environment) =>
    /\ \A o \in DOMAIN ops :
         /\ Done(o) /\ ~ops[o].raised /\ ops[o].value = FALSE
         /\ ops[o].issued = <<>>
         /\ ops[o].kind = "status" =>
              ops[o].serviceStatus = T_inactive /\ ops[o].processIds = <<>>
    /\ calls = <<>> /\ requests = <<>> /\ futures = <<>> /\ procs = <<>>
    /\ connectionPool = [k \in Keys |-> NULL]
    /\ sessions = <<>>
    /\ poolCleanupInterval = NULL /\ intervals = <<>>

\* C20 witness: status() has been called with a user but no host.
C20_Witness ==
  /\ environment.remoteUser = "root" /\ environment.remoteHost = ""
  /\ Len(ops) = 1 /\ ops[1].kind = "status" /\ Done(1)

\* The calls of operation o that carry the command cmd.
CallsOf(o, cmd) == {i \in DOMAIN ops[o].issued : CallOf(o, i).cmd = cmd}
StatusDone(o) == ops[o].kind = "status" /\ Done(o) /\ ~NoConnection(environment)
ReportedActive(o) == \E i \in CallsOf(o, IsActiveCmd) : Returned(o, i) /\ trim(OutputOf(o, i)) = T_active
FoundProcess(o) == \E i \in CallsOf(o, PgrepCmd) : Returned(o, i) /\ includes(OutputOf(o, i), T_pid)

\* C21: status().isRunning is true exactly when the is-active query returned
\* 'active' or the process-list query returned at least one process id; the
\* process-list query is issued whatever the outcome of the is-active query.
C21_IsRunningServiceOrProcess ==
  \A o \in DOMAIN ops :
    StatusDone(o) =>
      /\ ops[o].value = (ReportedActive(o) \/ FoundProcess(o))
      /\ Cardinality(CallsOf(o, PgrepCmd)) = 1
      /\ Cardinality(CallsOf(o, IsActiveCmd)) = 1

\* C21 witness: the is-active query of a status() has failed, the process
\* list has shown a process, and isRunning is true.
C21_Witness ==
  \E o \in DOMAIN ops :
    /\ StatusDone(o) /\ ops[o].value
    /\ Threw(o, 1) /\ CallOf(o, 1).cmd = IsActiveCmd
    /\ FoundProcess(o)
    /\ ops[o].processIds = <<T_pid>>

\* C22: in status(), a failed status dump, ps listing or process-id query
\* never fails the status query: the field of the failed command is its
\* placeholder (or the empty id list), the fields of the commands that
\* succeeded hold their output, and isRunning is computed from these.
C22_DiagnosticsDegrade ==
  \A o \in DOMAIN ops :
    StatusDone(o) =>
      /\ ~ops[o].raised
      /\ Cardinality(CallsOf(o, PsCmd)) = 1
      /\ \A i \in CallsOf(o, StatusDumpCmd) :
           /\ ops[o].serviceDetails = IF Returned(o, i) THEN T_dump ELSE T_noDetails
           /\ ops[o].serviceStatus = trim(OutputOf(o, 1))
      /\ \A i \in CallsOf(o, PgrepCmd) :
           ops[o].processIds = IF Returned(o, i) /\ includes(OutputOf(o, i), T_pid)
                                 THEN <<T_pid>> ELSE <<>>
      /\ \A i \in CallsOf(o, PsCmd) :
           ops[o].processDetails = IF Returned(o, i) THEN T_dump ELSE T_noProcessDetails
      /\ ops[o].value = (ops[o].serviceStatus = T_active \/ ops[o].processIds # <<>>)

\* C22 witness: the status dump and the ps listing of a status() have failed
\* while the service is active and a process is listed.
C22_Witness ==
  \E o \in DOMAIN ops :
    /\ StatusDone(o) /\ ops[o].value
    /\ \E i \in CallsOf(o, StatusDumpCmd) : Threw(o, i)
    /\ \E i \in CallsOf(o, PsCmd) : Threw(o, i)
    /\ ops[o].serviceStatus = T_active
    /\ ops[o].processIds = <<T_pid>>
    /\ ops[o].serviceDetails = T_noDetails /\ ops[o].processDetails = T_noProcessDetails

C24_SuccessIffExitZero ==
  [][\A r \in DOMAIN procs :
       /\ \A code \in AllExitCodes :
            (ProcClose(r, code) /\ ~procs[r].finished) =>
              /\ futures[r].status = "inflight"
              /\ code = 0 =>
                   /\ futures'[r].status = "resolved"
                   /\ futures'[r].stdout = trimEnd(Stdout(futures[r].cmd, remote'))
                   /\ futures'[r].stderr = trimEnd(Stderr(futures[r].cmd, code))
                   /\ futures'[r].message = <<>>
              /\ code # 0 =>
                   /\ futures'[r].status = "rejected" /\ futures'[r].error = "exit"
                   /\ includes(futures'[r].message, <<ToString(code)>>)
                   /\ includes(futures'[r].message, trimEnd(Stderr(futures[r].cmd, code)))
                   /\ \A other \in AllExitCodes \ {code} :
                        ~includes(futures'[r].message, <<ToString(other)>>)
       /\ ProcError(r) =>
            /\ futures'[r].status = "rejected" /\ futures'[r].error = "transport"
            /\ futures'[r].message = SpawnMessage]_vars

\* C24 witness: of two requests, one has been resolved by exit code 0 and the
\* other rejected with the message of exit code 255.
C24_Witness ==
  \E r1, r2 \in DOMAIN futures :
    /\ futures[r1].status = "resolved" /\ futures[r1].message = <<>>
    /\ futures[r2].status = "rejected" /\ futures[r2].error = "exit"
    /\ futures[r2].message = <<"SSH command failed with code ", "255", ": ",
                               "ssh: connect to host h1 port 22: Connection refused">>

\* The places of a command text where sudo is invoked (the word sudo followed
\* by a space), and whether each of them has the -n flag.
SudoInvocations(t) == {i \in Matches(t, T_sudo \o T_sp) : i = 1 \/ t[i - 1] = " "}
NonInteractive(t) ==
  \A i \in SudoInvocations(t) : startsWith(SubSeq(t, i, Len(t)), T_sudo \o T_sp \o T_n)

\* C25: every command the sudo path submits to the pool invokes sudo with -n
\* only, whether the command was routed there by requiresSudo, by containing
\* 'sudo' or by starting with 'sudo', and also when sudo is not its first word.
C25_SudoNonInteractive ==
  \A c \in DOMAIN calls :
    calls[c].path = "sudo" =>
      \A r \in AttemptsOf(c) : NonInteractive(futures[r].cmd)

\* C26: the retry loop stops at the first success: a call whose attempt k
\* succeeds returns the output of attempt k and submits nothing more; a
\* command is submitted at most R times, and exactly k times when attempt k
\* is the first to succeed.
C26_StopsAtFirstSuccess ==
  /\ [](\A c \in DOMAIN calls :
          /\ Len(calls[c].reqs) <= calls[c].retries
          /\ Cardinality(AttemptsOf(c)) = Len(calls[c].reqs)
          /\ \A i \in 1..(Len(calls[c].reqs) - 1) : futures[calls[c].reqs[i]].status = "rejected"
          /\ calls[c].pc = "returned" =>
               /\ calls[c].result.from = calls[c].reqs[Len(calls[c].reqs)]
               /\ futures[calls[c].result.from].status = "resolved"
          /\ (Len(calls[c].reqs) > 0 /\ futures[calls[c].reqs[Len(calls[c].reqs)]].status = "resolved") =>
               calls[c].pc = "returned")
  /\ [][\A c \in DOMAIN calls : calls[c].pc = "returned" => calls'[c] = calls[c]]_vars

\* C26 witness: a call with 3 retries has returned the output of its second
\* attempt, the first having failed, with two requests submitted in all.
C26_Witness ==
  \E c \in DOMAIN calls :
    /\ calls[c].pc = "returned" /\ calls[c].retries = 3
    /\ Len(calls[c].reqs) = 2
    /\ futures[calls[c].reqs[1]].status = "rejected"
    /\ calls[c].result.from = calls[c].reqs[2]
    /\ Len(futures) = 2

\* The base of the waits of call c, in ms.
BaseOf(c) == IF calls[c].path = "sudo" THEN 2000 ELSE 1000

QueueOf(c) ==
  LET s == connectionPool[PoolKey(calls[c].connection)]
  IN IF s = NULL THEN <<>> ELSE sessions[s].commandQueue

\* C28: a retry is a new request, appended at the tail of the session queue
\* when the backoff wait ends: every command submitted to the same identity
\* before that moment, also during the wait, has run and is settled before
\* the retry attempt starts.
C28_RetryQueuedAtTail ==
  /\ [](\A c \in DOMAIN calls : \A k \in 2..Len(calls[c].reqs) :
          /\ calls[c].reqs[k] > calls[c].reqs[k - 1]
          /\ futures[calls[c].reqs[k]].spawned <= 1
          /\ \A q \in DOMAIN futures :
               (q < calls[c].reqs[k] /\ futures[q].key = futures[calls[c].reqs[k]].key
                  /\ Started(calls[c].reqs[k])) => Settled(q))
  /\ [][\A c \in DOMAIN calls :
          (calls[c].pc = "backoff" /\ calls'[c].pc # "backoff") =>
            /\ calls[c].waited = calls[c].attempt * BaseOf(c)
            /\ calls'[c].reqs = Append(calls[c].reqs, Len(futures) + 1)
            /\ Len(futures') = Len(futures) + 1
            /\ IF futures'[Len(futures')].busyAtSubmit
                 THEN QueueOf(c)' = Append(QueueOf(c), Len(futures'))
                 ELSE QueueOf(c) = <<>> /\ futures'[Len(futures')].status = "inflight"]_vars

\* C28 witness: a command submitted during the backoff wait of a call was
\* still running when the retry was submitted, and has been settled before
\* the retry attempt, which has started.
C28_Witness ==
  \E c \in DOMAIN calls, q \in DOMAIN futures :
    /\ Len(calls[c].reqs) = 2
    /\ calls[c].reqs[1] < q /\ q < calls[c].reqs[2]
    /\ ~futures[q].busyAtSubmit
    /\ futures[calls[c].reqs[2]].busyAtSubmit
    /\ Settled(q) /\ Started(calls[c].reqs[2])

\* C29: in the drain loop, when the future of a request is settled, resolved
\* or rejected, the loop waits the 100 ms inter-command delay before it pops
\* and starts the next request of the session.
C29_DelayAfterEverySettle ==
  [][\A r \in DOMAIN futures :
       (futures[r].status = "inflight" /\ futures'[r].status \in {"resolved", "rejected"}
          /\ sessions[requests[r].session].commandQueue # <<>>) =>
         /\ requests[r].session \in DOMAIN drain'
         /\ drain'[requests[r].session].pc = "delay"
         /\ drain'[requests[r].session].wake = now + 100
         /\ sessions'[requests[r].session].commandQueue = sessions[requests[r].session].commandQueue
         /\ \A q \in DOMAIN futures : futures[q].status = "queued" => futures'[q].status = "queued"]_vars

\* C30: in start(), the failure of a diagnostic follow-up command does not
\* change the result: when the service is found active and the status dump
\* that is only logged fails, start() returns true; when the re-check is
\* negative and the status or log-tail fetch fails, start() returns false
\* and does not raise.
C30_StartDiagnosticsHarmless ==
  \A o \in DOMAIN ops :
    (ops[o].kind = "start" /\ Done(o)) =>
      /\ (\E i \in CallsOf(o, StatusLogCmd) : Threw(o, i)) =>
            (ops[o].value = TRUE /\ ~ops[o].raised)
      /\ (\E i \in CallsOf(o, StatusDiagCmd) \cup CallsOf(o, JournalCmd) : Threw(o, i)) =>
            (ops[o].value = FALSE /\ ~ops[o].raised)

\* C31: once start() has issued the start-service command it goes on to the
\* re-check whatever the command's outcome: a start() that has returned after
\* issuing the start command has queried the active status a second time.
C31_RecheckAfterStartCommand ==
  \A o \in DOMAIN ops :
    (ops[o].kind = "start" /\ Done(o) /\ CallsOf(o, StartCmd) # {}) =>
      Cardinality(CallsOf(o, IsActiveCmd)) = 2

\* C32: when start() has found the service not active and the start command
\* has succeeded, start() issues one more is-active query and no other, and
\* returns true exactly when that query has returned 'active'.
C32_SingleRecheckDecides ==
  \A o \in DOMAIN ops :
    (ops[o].kind = "start" /\ \E i \in CallsOf(o, StartCmd) : Returned(o, i)) =>
      /\ Cardinality(CallsOf(o, IsActiveCmd)) <= 2
      /\ Done(o) =>
           /\ Cardinality(CallsOf(o, IsActiveCmd)) = 2
           /\ CallOf(o, 3).cmd = IsActiveCmd
           /\ ~ops[o].raised
           /\ ops[o].value = (Returned(o, 3) /\ trim(OutputOf(o, 3)) = T_active)

\* C32 witness: the start command has succeeded, the re-check has found the
\* service still starting, start() has returned false, and the service has
\* become active afterwards.
C32_Witness ==
  /\ Len(ops) = 1 /\ ops[1].kind = "start" /\ Done(1)
  /\ Len(ops[1].issued) >= 3
  /\ CallOf(1, 2).cmd = StartCmd /\ Returned(1, 2)
  /\ Returned(1, 3) /\ trim(OutputOf(1, 3)) = T_activating \o T_nl \o T_inactive
  /\ ops[1].value = FALSE
  /\ remote.service = "active"

\* C33: in stop(), the first process list query that reports the node process
\* absent ends the poll: stop() has returned true in the same step, that
\* query is the last command it has issued, and no sleep is pending.
C33_FirstAbsenceEndsPoll ==
  \A o \in DOMAIN ops :
    ops[o].kind = "stop" =>
      \A i \in CallsOf(o, PgrepOrNoneCmd) :
        (Returned(o, i) /\ trim(OutputOf(o, i)) = T_noProcesses) =>
          /\ Done(o) /\ ops[o].value = TRUE /\ ~ops[o].raised
          /\ i = Len(ops[o].issued)
          /\ ops[o].wake = NoTimer

\* C33 witness: the first process list query has found the process, the
\* second has reported it absent, and stop() has returned true.
C33_Witness ==
  /\ Len(ops) = 1 /\ ops[1].kind = "stop" /\ Done(1) /\ ops[1].value
  /\ Cardinality(CallsOf(1, PgrepOrNoneCmd)) = 2
  /\ \E i \in CallsOf(1, PgrepOrNoneCmd) : Returned(1, i) /\ trim(OutputOf(1, i)) = T_pid
  /\ \E i \in CallsOf(1, PgrepOrNoneCmd) : Returned(1, i) /\ trim(OutputOf(1, i)) = T_noProcesses

\* The number of polls of the quiescence loop: 30 s of budget, 3 s apart.
MaxPolls == maxWaitTime \div PollInterval

\* C34: stop() terminates, and its quiescence poll issues at most ten process
\* list queries, also when the node process never disappears.
C34_StopTerminates ==
  /\ [](\A o \in DOMAIN ops :
          ops[o].kind = "stop" => Cardinality(CallsOf(o, PgrepOrNoneCmd)) <= MaxPolls)
  /\ \A o \in 1..MaxOps :
       (o \in DOMAIN ops /\ ops[o].kind = "stop") ~> (o \in DOMAIN ops /\ Done(o))

\* C34 witness: ten process list queries have found the node process, which
\* is still there, and stop() has returned.
C34_Witness ==
  /\ Len(ops) = 1 /\ ops[1].kind = "stop" /\ Done(1) /\ ops[1].value
  /\ Cardinality(CallsOf(1, PgrepOrNoneCmd)) = MaxPolls
  /\ \A i \in CallsOf(1, PgrepOrNoneCmd) : Returned(1, i) /\ trim(OutputOf(1, i)) = T_pid
  /\ remote.process

\* C35: the stdout delivered for a command is the normalization of the whole
\* stream the remote process wrote, however the transport has split the
\* stream into chunks.
C35_ChunkingIndependent ==
  probe.closed => probe.result = normalizeMessage(probe.stream)

\* C36: in every state between two steps, a session whose queue is not empty
\* is marked busy, a session is marked busy exactly when a drain loop is
\* running on it, and every request waiting in a queue is pending on a busy
\* session: no request waits on an idle session.
C36_QueuedImpliesDraining ==
  /\ \A s \in DOMAIN sessions :
       /\ sessions[s].commandQueue # <<>> => sessions[s].isActive
       /\ sessions[s].isActive <=> s \in DOMAIN drain
  /\ \A r \in DOMAIN requests :
       /\ requests[r].session \in DOMAIN sessions
       /\ sessions[requests[r].session].isActive

\* C36 witness: a request waits in the queue of a session while a drain loop
\* runs another request of that session.
C36_Witness ==
  \E s \in DOMAIN sessions :
    /\ sessions[s].commandQueue # <<>>
    /\ sessions[s].isActive
    /\ s \in DOMAIN drain /\ drain[s].pc = "run"
    /\ connectionPool[futures[drain[s].cur].key] = s

\* C37: commands of one identity run one at a time also across a teardown of
\* the pool: a command is not in flight while an earlier command of the same
\* identity is still queued or in flight.
C37_SerialAcrossTeardown ==
  \A r1, r2 \in DOMAIN futures :
    (r1 < r2 /\ futures[r1].key = futures[r2].key /\ futures[r2].status = "inflight") =>
      Settled(r1)

\* C38: the outcome of a command is that of the first of close, error and
\* timeout, and is delivered once: the outcome and the output of a settled
\* future never change again, also when the process closes with code 0 after
\* the timeout has rejected it; and for a command settled by close or error
\* no timer of the runner stays pending and no signal is ever sent.
C38_FirstOutcomeWins ==
  /\ [](\A r \in DOMAIN futures :
          (futures[r].status = "resolved" \/ futures[r].error \in {"exit", "transport"}) =>
            /\ r \notin DOMAIN procs
            /\ futures[r].signals = <<>>)
  /\ [][\A r \in DOMAIN futures :
          Settled(r) =>
            /\ futures'[r].status = futures[r].status
            /\ futures'[r].error = futures[r].error
            /\ futures'[r].stdout = futures[r].stdout
            /\ futures'[r].stderr = futures[r].stderr
            /\ futures'[r].message = futures[r].message]_vars
  /\ [][\A r \in DOMAIN procs :
          (futures[r].error = "timeout" /\ ProcClose(r, 0)) =>
             (futures'[r].status = "rejected" /\ futures'[r].error = "timeout")]_vars

\* C38 witness: a command rejected by its timeout whose process has closed
\* after the terminate signal, and another command that was settled by its
\* close and never signalled.
C38_Witness ==
  \E r1 \in DOMAIN procs, r2 \in DOMAIN futures :
    /\ futures[r1].status = "rejected" /\ futures[r1].error = "timeout"
    /\ procs[r1].state = "exited" /\ Len(futures[r1].signals) = 1
    /\ futures[r2].status = "resolved" /\ futures[r2].signals = <<>>

SawProcess(o) == \E i \in CallsOf(o, PgrepCmd) : Returned(o, i) /\ trim(OutputOf(o, i)) # <<>>

\* C40: when isCelestiaProcessesRunning() and getStatus() have got the same
\* answers to the is-active query and to the process list query, they agree
\* on whether the node is running; and when getStatus() reports it running
\* without the service being active, it reports at least one process id.
C40_RunningAgreesWithStatus ==
  \A o1, o2 \in DOMAIN ops :
    (/\ ops[o1].kind = "isRunning" /\ Done(o1)
     /\ ops[o2].kind = "status" /\ Done(o2)
     /\ ReportedActive(o1) <=> ReportedActive(o2)
     /\ ~ReportedActive(o1) => (SawProcess(o1) <=> SawProcess(o2))) =>
      /\ ops[o1].value = ops[o2].value
      /\ (ops[o2].value /\ ~ReportedActive(o2)) => Len(ops[o2].processIds) >= 1

\* C40 witness: with the service inactive and the node process running, both
\* operations have seen the process and have reported the node running, with
\* one process id in the status.
C40_Witness ==
  /\ Len(ops) = 2 /\ Done(1) /\ Done(2)
  /\ ops[1].kind = "isRunning" /\ ops[2].kind = "status"
  /\ ~ReportedActive(1) /\ ~ReportedActive(2)
  /\ SawProcess(1) /\ SawProcess(2)
  /\ ops[1].value /\ ops[2].value
  /\ ops[2].processIds = <<T_pid>>
====
